---- MODULE Spec2Model ----
(***************************************************************************)
(* Policy trace viewer of agent-console.                                   *)
(*                                                                         *)
(*   flattenCupcakeSpan  (pages/project-detail/policy-utils.ts)            *)
(*   processSpans        (components/policy-trace-chart.tsx)               *)
(*   PolicyViewer        (components/policy-viewer.tsx, load span effect)  *)
(*                                                                         *)
(* Encoding of JavaScript values                                           *)
(*   - an optional string or object (T | undefined | null) is a sequence   *)
(*     of length 0 (absent) or 1 (present): <<>> or <<v>>;                 *)
(*   - an optional number that the code only reads through `x || y`,       *)
(*     `!x` or `x ? a : b` is a number, 0 standing for 0 and for a missing *)
(*     value alike (JavaScript treats both as falsy); a signal execution   *)
(*     also records in `durationReported` whether the document carries its *)
(*     durationMs at all, so that a reported 0 differs from no report;     *)
(*   - `${x}` of an absent x is the text "undefined".                      *)
(* The fields `name` and `data` of a TraceSpan are not modelled.           *)
(***************************************************************************)
EXTENDS Integers, Sequences, FiniteSets, TLC

VARIABLES
    \* ---- flattening / layout pipeline (pure functions applied to an input)
    cupcake,            \* the trace document given to flattenCupcakeSpan
    spans,              \* TraceSpan[] : the list handed to processSpans
    processed,          \* ProcessedSpan[] : processSpans' result
    stage,              \* "input" | "flat" | "laid" | "idle"
    walk,               \* the position of a processSpans call run step by step
    \* ---- PolicyViewer component state
    evaluations,        \* generation of the objects in useState<PolicyEvaluation[]>
    selectedEvaluation, \* useState<PolicyEvaluation | null>
    cupcakeSpan,        \* useState<CupcakeSpan | null>
    spanLoading,        \* useState(false)
    selectedSpan,       \* useState<TraceSpan | null>
    effectPending,      \* the load-span effect is scheduled by the last commit
    inFlight,           \* loadSpan calls awaiting get_policy_evaluation
    fetchCount,         \* number of loadSpan calls started so far
    loadSpanResult,     \* how the latest loadSpan call's invoke settled, or
                        \* "pending" / "none"
    \* ---- PolicyTraceChart component and its DOM
    chartMounted,       \* the component instance is mounted
    observing,          \* the ResizeObserver is connected to the container
    rafQueue,           \* requested animation frame callbacks (their entries)
    dimensions,         \* useState({ width: 0, height: 0 })
    renderPending,      \* a commit has scheduled the D3 rendering effect
    drawn,              \* the svg holds a drawing
    scrollTop,          \* container.scrollTop
    stickyTop,          \* y of the translate of the .sticky-element groups
    zoomTransform,      \* the zoom transform d3 keeps on the svg (__zoom)
    barTransform,       \* the transform the axis, grid and bars are drawn with
    rowTranslate,       \* y of the translate of each bar row, in row order
    hoveredRow,         \* the row whose background has the hover fill, or 0
    lastGesture         \* the last event handed to the zoom behaviour, with
                        \* the transform it asked for

pipelineVars == <<cupcake, spans, processed, stage, walk>>
viewerVars == <<evaluations, selectedEvaluation, cupcakeSpan, spanLoading,
                selectedSpan, effectPending, inFlight, fetchCount,
                loadSpanResult>>
chartVars == <<chartMounted, observing, rafQueue, dimensions, renderPending,
               drawn, scrollTop, stickyTop, zoomTransform, barTransform,
               rowTranslate, hoveredRow, lastGesture>>
vars == <<pipelineVars, viewerVars, chartVars>>

(***************************************************************************)
(* Bounds of the explored inputs.                                          *)
(***************************************************************************)
MaxPhases == 2
MaxSignals == 2
MaxSpans == 4
MaxFetches == 3
MaxReloads == 1
MaxScroll == 1

None == <<>>
Some(v) == <<v>>
\* a || b for an optional string a
OrStr(o, dflt) == IF o # <<>> THEN o[1] ELSE dflt
\* `${o}` for an optional string o
Str(o) == IF o # <<>> THEN o[1] ELSE "undefined"
\* a || b for a number a (0, undefined and null are falsy)
OrNum(a, b) == IF a # 0 THEN a ELSE b
\* Math.round(x / 1000): the nearest integer, halves towards +infinity
RoundDiv1000(x) == (x + 500) \div 1000
Max(a, b) == IF a >= b THEN a ELSE b

(***************************************************************************)
(* policy-utils.ts                                                         *)
(***************************************************************************)

\* lib/types.ts getFinalDecisionType: the tag of the FinalDecision tagged
\* union ("Allow", "Ask", "Block", ...), or nothing for a null decision.
\* A decision is modelled by its optional tag.
getFinalDecisionType(decision) == decision

getStatusFromDecision(decision) ==
    LET decisionType == getFinalDecisionType(decision)
    IN  IF \/ decisionType = Some("Block")
           \/ decisionType = Some("Halt")
           \/ decisionType = Some("Deny") THEN "error"
        ELSE IF decisionType = Some("Ask") THEN "warning"
        ELSE "ok"

\* phase.evaluation?.finalDecision
EvalDecision(phase) ==
    IF phase.evaluation = None THEN None ELSE phase.evaluation[1].finalDecision

\* the for loop over span.phases: the first phase whose status is not ok
RECURSIVE PhaseLoopStatus(_, _)
PhaseLoopStatus(phases, i) ==
    IF i > Len(phases) THEN "ok"
    ELSE LET status == getStatusFromDecision(EvalDecision(phases[i]))
         IN  IF status # "ok" THEN status ELSE PhaseLoopStatus(phases, i + 1)

\* a root status that also looks at the signal executions
getOverallStatusWithSignals(span) ==
    IF \E i \in 1..Len(span.phases) :
           /\ span.phases[i].signals # None
           /\ \E k \in 1..Len(span.phases[i].signals[1].signals) :
                  LET exitCode == span.phases[i].signals[1].signals[k].exitCode
                  IN  exitCode.kind = "number" /\ exitCode.n # 0
    THEN "error"
    ELSE IF Len(span.errors) > 0 THEN "error"
    ELSE LET status == getStatusFromDecision(span.responseDecision)
         IN  IF span.responseDecision # None /\ status # "ok" THEN status
             ELSE PhaseLoopStatus(span.phases, 1)

getOverallStatus(span) ==
    IF Len(span.errors) > 0 THEN "error"
    ELSE LET responseDecision == span.responseDecision
             status == getStatusFromDecision(responseDecision)
         IN  IF responseDecision # None /\ status # "ok" THEN status
             ELSE PhaseLoopStatus(span.phases, 1)

\* phaseName.startsWith("catalog:") over the phase names of the model
CatalogNames == {"catalog:acme"}

getPhaseServiceName(phaseName) ==
    IF phaseName = "global" THEN "Global"
    ELSE IF phaseName = "project" THEN "Project"
    ELSE IF phaseName \in CatalogNames THEN "Catalog"
    ELSE "Phase"

nanoToRelativeMicro(nano, baseNano) == RoundDiv1000(nano - baseNano)

msToMicro(ms) == ms * 1000

\* the difference of the timestamps, whatever they are
calculateDurationMicroUnchecked(startNano, endNano) ==
    RoundDiv1000(endNano - startNano)

calculateDurationMicro(startNano, endNano) ==
    IF startNano = 0 \/ endNano = 0 \/ endNano <= startNano THEN 1
    ELSE RoundDiv1000(endNano - startNano)

\* const baseTime = cupcake.startTimeUnixNano || 0
BaseTime(c) == OrNum(c.startTimeUnixNano, 0)

RootSpan(c) ==
    [ spanId      |-> OrStr(c.spanId, "unknown"),
      parentId    |-> None,
      serviceName |-> "Root",
      startTime   |-> 0,
      duration    |-> calculateDurationMicro(c.startTimeUnixNano, c.endTimeUnixNano),
      status      |-> getOverallStatus(c) ]

EnrichSpans(c) ==
    IF c.enrich = None THEN <<>>
    ELSE LET enrich == c.enrich[1]
             enrichDuration ==
                 OrNum(enrich.durationUs,
                       calculateDurationMicro(enrich.startTimeUnixNano,
                                              enrich.endTimeUnixNano))
         IN  << [ spanId      |-> OrStr(enrich.spanId, Str(c.spanId) \o "-enrich"),
                  parentId    |-> c.spanId,
                  serviceName |-> "Enrich",
                  startTime   |-> nanoToRelativeMicro(
                                      OrNum(enrich.startTimeUnixNano, BaseTime(c)),
                                      BaseTime(c)),
                  duration    |-> enrichDuration,
                  status      |-> "ok" ] >>

PhaseStartNano(c, phase) == OrNum(phase.startTimeUnixNano, BaseTime(c))
PhaseEndNano(c, phase) ==
    OrNum(phase.endTimeUnixNano, OrNum(c.endTimeUnixNano, BaseTime(c)))
PhaseStartTime(c, phase) == nanoToRelativeMicro(PhaseStartNano(c, phase), BaseTime(c))
PhaseDuration(c, phase) ==
    calculateDurationMicro(PhaseStartNano(c, phase), PhaseEndNano(c, phase))

PhaseSpan(c, phase) ==
    [ spanId      |-> OrStr(phase.spanId, Str(c.spanId) \o "-phase"),
      parentId    |-> c.spanId,
      serviceName |-> getPhaseServiceName(phase.name),
      startTime   |-> PhaseStartTime(c, phase),
      duration    |-> PhaseDuration(c, phase),
      status      |-> getStatusFromDecision(EvalDecision(phase)) ]

\* signal.durationMs ? msToMicro(signal.durationMs)
\*                   : Math.max(1, Math.floor(signalsDuration / (length || 1)))
SignalDuration(signal, signalsDuration, n) ==
    IF signal.durationMs # 0 THEN msToMicro(signal.durationMs)
    ELSE Max(1, signalsDuration \div OrNum(n, 1))

\* signal.exitCode === 0 || signal.exitCode === null ? "ok" : "error"
SignalStatus(signal) ==
    IF \/ (signal.exitCode.kind = "number" /\ signal.exitCode.n = 0)
       \/ signal.exitCode.kind = "null"
    THEN "ok" ELSE "error"

\* signalOffset += signalDuration
NextSignalOffsetStuck(signalOffset, signalDuration) == signalOffset

NextSignalOffset(signalOffset, signalDuration) == signalOffset + signalDuration

\* the loop `for (let i = 0; i < signals.signals.length; i++)`; i is the
\* 0-based index of the code, list[i + 1] the element signals.signals[i]
RECURSIVE SignalLoop(_, _, _, _, _)
SignalLoop(signals, signalsStartTime, signalsDuration, i, signalOffset) ==
    IF i >= Len(signals.signals) THEN <<>>
    ELSE LET signal == signals.signals[i + 1]
             signalDuration ==
                 SignalDuration(signal, signalsDuration, Len(signals.signals))
         IN  << [ spanId      |-> Str(signals.spanId) \o "-signal-" \o ToString(i),
                  parentId    |-> signals.spanId,
                  serviceName |-> "Signal",
                  startTime   |-> signalsStartTime + signalOffset,
                  duration    |-> signalDuration,
                  status      |-> SignalStatus(signal) ] >>
             \o SignalLoop(signals, signalsStartTime, signalsDuration, i + 1,
                           NextSignalOffset(signalOffset, signalDuration))

SignalsSpans(c, phase) ==
    IF phase.signals = None THEN <<>>
    ELSE LET signals == phase.signals[1]
             signalsStartNano ==
                 OrNum(signals.startTimeUnixNano, PhaseStartNano(c, phase))
             signalsEndNano ==
                 OrNum(signals.endTimeUnixNano, PhaseEndNano(c, phase))
             signalsStartTime == nanoToRelativeMicro(signalsStartNano, BaseTime(c))
             signalsDuration ==
                 calculateDurationMicro(signalsStartNano, signalsEndNano)
         IN  << [ spanId      |-> OrStr(signals.spanId, Str(phase.spanId) \o "-signals"),
                  parentId    |-> phase.spanId,
                  serviceName |-> "Signals",
                  startTime   |-> signalsStartTime,
                  duration    |-> signalsDuration,
                  status      |-> "ok" ] >>
             \o SignalLoop(signals, signalsStartTime, signalsDuration, 0, 0)

\* the Evaluation span placed at the head of its phase
EvaluationSpansAtPhaseStart(c, phase) ==
    IF phase.evaluation = None THEN <<>>
    ELSE LET eval_ == phase.evaluation[1]
             evalDuration == Max(1, PhaseDuration(c, phase) \div 5)
         IN  << [ spanId      |-> OrStr(eval_.spanId, Str(phase.spanId) \o "-eval"),
                  parentId    |-> phase.spanId,
                  serviceName |-> "Evaluation",
                  startTime   |-> PhaseStartTime(c, phase),
                  duration    |-> evalDuration,
                  status      |-> getStatusFromDecision(EvalDecision(phase)) ] >>

EvaluationSpans(c, phase) ==
    IF phase.evaluation = None THEN <<>>
    ELSE LET eval_ == phase.evaluation[1]
             phaseDuration == PhaseDuration(c, phase)
             \* Math.max(1, Math.floor(phaseDuration * 0.2))
             evalDuration == Max(1, phaseDuration \div 5)
             evalStartTime == PhaseStartTime(c, phase) + phaseDuration - evalDuration
         IN  << [ spanId      |-> OrStr(eval_.spanId, Str(phase.spanId) \o "-eval"),
                  parentId    |-> phase.spanId,
                  serviceName |-> "Evaluation",
                  startTime   |-> evalStartTime,
                  duration    |-> evalDuration,
                  status      |-> getStatusFromDecision(EvalDecision(phase)) ] >>

\* the body of `for (const phase of cupcake.phases || [])`
RECURSIVE PhaseLoop(_, _)
PhaseLoop(c, i) ==
    IF i > Len(c.phases) THEN <<>>
    ELSE LET phase == c.phases[i]
         IN  <<PhaseSpan(c, phase)>> \o SignalsSpans(c, phase)
             \o EvaluationSpans(c, phase) \o PhaseLoop(c, i + 1)

flattenEnrichLast(c) == <<RootSpan(c)>> \o PhaseLoop(c, 1) \o EnrichSpans(c)

flattenCupcakeSpan(c) == <<RootSpan(c)>> \o EnrichSpans(c) \o PhaseLoop(c, 1)

(***************************************************************************)
(* policy-trace-chart.tsx : processSpans                                   *)
(***************************************************************************)

\* spanMap.get(id): Map.set overwrites, so the last span carrying the id
SpanMapGet(list, id) ==
    LET idxs == {i \in 1..Len(list) : list[i].spanId = id}
    IN  IF idxs = {} THEN None
        ELSE Some(list[CHOOSE i \in idxs : \A j \in idxs : j <= i])

RECURSIVE getDepth(_, _)
getDepth(list, span) ==
    IF span.parentId = None THEN 0
    ELSE LET parent == SpanMapGet(list, span.parentId[1])
         IN  IF parent = None THEN 0
             ELSE getDepth(list, parent[1]) + 1

\* the comparator handed to Array.prototype.sort; depthA and depthB are the
\* comparator's getDepth(a) and getDepth(b)
SortCompare(depthA, depthB, a, b) ==
    IF depthA # depthB THEN depthA - depthB
    ELSE a.startTime - b.startTime

\* [...spans].sort(cmp): Array.prototype.sort is stable, so the element at
\* input index i is placed after every j that compares lower, and after every
\* earlier j that compares equal; depth[i] is getDepth of the i-th element
SortedByDepth(list, depth) ==
    LET n == Len(list)
        cmp == [j \in 1..n |-> [i \in 1..n |->
                   SortCompare(depth[j], depth[i], list[j], list[i])]]
        rank == [i \in 1..n |->
                   Cardinality({j \in 1..n :
                       j # i /\ (cmp[j][i] < 0 \/ (cmp[j][i] = 0 /\ j < i))}) + 1]
    IN  [k \in 1..n |-> list[CHOOSE i \in 1..n : rank[i] = k]]

Sorted(list) ==
    LET depth == [i \in 1..Len(list) |-> getDepth(list, list[i])]
    IN  SortedByDepth(list, depth)

\* sorted.filter((s) => !s.parentId)
RootSpans(sorted) == SelectSeq(sorted, LAMBDA s : s.parentId = None)

\* sorted.filter((s) => s.parentId === span.spanId)
Children(sorted, span) ==
    SelectSeq(sorted, LAMBDA s : s.parentId = Some(span.spanId))

\* processSubtree(span, depth): the spans it pushes, in the order of the
\* pushes, each with the depth it is pushed with: the span itself, then the
\* pushes of processSubtree(child, depth + 1) for each child in turn
RECURSIVE processSubtree(_, _, _)
RECURSIVE ProcessEach(_, _, _, _)
processSubtree(sorted, span, depth) ==
    <<[span |-> span, depth |-> depth]>>
    \o ProcessEach(sorted, Children(sorted, span), 1, depth + 1)

\* `for (const s of list) processSubtree(s, depth)`, from the i-th element on
ProcessEach(sorted, list, i, depth) ==
    IF i > Len(list) THEN <<>>
    ELSE processSubtree(sorted, list[i], depth)
         \o ProcessEach(sorted, list, i + 1, depth)

\* `row` never incremented
RowNeverIncremented(k) == 0

\* `let row = 0` and `row++` after every push: the k-th push (k = 1, 2, ...)
\* reads row = k - 1
RowAtPush(k) == k - 1

\* rows handed out in the order of `sorted`, without the walk of the tree
processSpansInSortedOrder(list) ==
    LET sorted == Sorted(list)
    IN  [k \in 1..Len(sorted) |->
            sorted[k] @@ [row |-> k - 1, depth |-> getDepth(list, sorted[k])]]

\* processed.push({ ...span, row, depth })
processSpans(list) ==
    LET sorted == Sorted(list)
        pushes == ProcessEach(sorted, RootSpans(sorted), 1, 0)
    IN  [k \in 1..Len(pushes) |->
            pushes[k].span @@ [row |-> RowAtPush(k), depth |-> pushes[k].depth]]

(***************************************************************************)
(* Trace documents given to flattenCupcakeSpan.                            *)
(*                                                                         *)
(* A span id that the document carries is unique in the document (the      *)
(* backend's span ids); a node may also carry none.  The documents are     *)
(* drawn from seven families, each of which varies one aspect of the       *)
(* document over all its combinations and holds the others fixed.          *)
(***************************************************************************)
SeqsUpTo(S, n) == UNION {[1..k -> S] : k \in 0..n}

IdOf(hasId, prefix, i) == IF hasId THEN Some(prefix \o ToString(i)) ELSE None

MkSignals(sh, i) ==
    [ spanId            |-> IdOf(sh.hasId, "s", i),
      startTimeUnixNano |-> sh.time[1],
      endTimeUnixNano   |-> sh.time[2],
      signals           |-> sh.signals ]

MkEvaluation(sh, i) ==
    [ spanId |-> IdOf(sh.hasId, "v", i), finalDecision |-> sh.finalDecision ]

MkPhase(sh, i) ==
    [ spanId            |-> IdOf(sh.hasId, "p", i),
      name              |-> sh.name,
      startTimeUnixNano |-> sh.time[1],
      endTimeUnixNano   |-> sh.time[2],
      signals           |-> IF sh.signals = None THEN None
                            ELSE Some(MkSignals(sh.signals[1], i)),
      evaluation        |-> IF sh.evaluation = None THEN None
                            ELSE Some(MkEvaluation(sh.evaluation[1], i)) ]

MkEnrich(sh) ==
    [ spanId            |-> IdOf(sh.hasId, "e", 0),
      durationUs        |-> sh.durationUs,
      startTimeUnixNano |-> sh.time[1],
      endTimeUnixNano   |-> sh.time[2] ]

MkDoc(sh) ==
    [ spanId            |-> IdOf(sh.hasId, "r", 0),
      startTimeUnixNano |-> sh.time[1],
      endTimeUnixNano   |-> sh.time[2],
      errors            |-> sh.errors,
      responseDecision  |-> sh.responseDecision,
      enrich            |-> IF sh.enrich = None THEN None
                            ELSE Some(MkEnrich(sh.enrich[1])),
      phases            |-> [i \in 1..Len(sh.phases) |-> MkPhase(sh.phases[i], i)] ]

\* <<startTimeUnixNano, endTimeUnixNano>>; 0 is a missing or zero timestamp
NoTime == <<0, 0>>
FullTime == <<1000, 11000>>
RootTimes == {NoTime, <<0, 11000>>, <<1000, 1400>>, FullTime, <<11000, 1000>>}
PhaseTimes == {NoTime, <<1000, 1400>>, <<2500, 11000>>, <<3000, 9000>>}
SignalsTimes == {NoTime, <<3000, 7000>>}
EnrichTimes == {NoTime, <<1000, 1400>>, <<2000, 12000>>, <<3000, 2000>>}
ExitOk == [kind |-> "number", n |-> 0]
PlainSignal == [durationMs |-> 0, durationReported |-> FALSE, exitCode |-> ExitOk]
TimedSignals ==
    { [durationMs |-> d, durationReported |-> d # 0, exitCode |-> ExitOk] :
        d \in {0, 1} }
PhaseNames == {"global", "project", "catalog:acme", "custom", ""}
Decisions == {None, Some("Allow"), Some("Ask"), Some("Block"), Some("Halt"),
              Some("Deny")}
ResponseDecisions == {None, Some("Allow"), Some("Ask"), Some("Block")}
PlainEvaluation == [hasId |-> TRUE, finalDecision |-> Some("Allow")]

PlainDocShape ==
    [ hasId |-> TRUE, time |-> FullTime, errors |-> <<>>,
      responseDecision |-> None, enrich |-> None, phases |-> <<>> ]
PlainPhaseShape ==
    [ hasId |-> TRUE, name |-> "global", time |-> NoTime, signals |-> None,
      evaluation |-> None ]

\* timing of the root, of a phase, of its signals and evaluation (the timing
\* of a phase's spans is computed from the root and that phase alone)
TimingPhaseShapes ==
    { [PlainPhaseShape EXCEPT !.time = t, !.signals = sg, !.evaluation = ev] :
        t \in PhaseTimes,
        sg \in {None} \cup
              { Some([hasId |-> TRUE, time |-> st, signals |-> ss]) :
                  st \in SignalsTimes, ss \in SeqsUpTo(TimedSignals, MaxSignals) },
        ev \in {None, Some(PlainEvaluation)} }
TimingShapes ==
    { [PlainDocShape EXCEPT !.time = t, !.phases = ps] :
        t \in RootTimes, ps \in {<<>>} \cup {<<p>> : p \in TimingPhaseShapes} }

\* timing and identity of the enrich phase
EnrichShapes ==
    { [PlainDocShape EXCEPT !.hasId = h, !.time = t, !.enrich = Some(en),
                            !.phases = ps] :
        h \in BOOLEAN, t \in RootTimes, ps \in {<<>>, <<PlainPhaseShape>>},
        en \in [hasId : BOOLEAN, durationUs : {0, 7}, time : EnrichTimes] }

\* which nodes carry a span id
IdentPhaseShapes ==
    { [PlainPhaseShape EXCEPT !.hasId = h, !.signals = sg, !.evaluation = ev] :
        h \in BOOLEAN,
        sg \in {None} \cup
              { Some([hasId |-> sh, time |-> NoTime,
                      signals |-> <<PlainSignal>>]) :
                  sh \in BOOLEAN },
        ev \in {None} \cup
              { Some([PlainEvaluation EXCEPT !.hasId = eh]) : eh \in BOOLEAN } }
IdentShapes ==
    { [PlainDocShape EXCEPT !.hasId = h, !.phases = ps] :
        h \in BOOLEAN, ps \in SeqsUpTo(IdentPhaseShapes, MaxPhases) }

\* errors, response decision and the phases' final decisions
StatusPhaseShapes ==
    { [PlainPhaseShape EXCEPT !.evaluation = ev] :
        ev \in {None} \cup
              { Some([PlainEvaluation EXCEPT !.finalDecision = d]) :
                  d \in Decisions } }
StatusShapes ==
    { [PlainDocShape EXCEPT !.errors = er, !.responseDecision = rd, !.phases = ps] :
        er \in {<<>>, <<"boom">>}, rd \in ResponseDecisions,
        ps \in SeqsUpTo(StatusPhaseShapes, MaxPhases) }

\* phase names
NameShapes ==
    { [PlainDocShape EXCEPT !.phases = <<[PlainPhaseShape EXCEPT !.name = n]>>] :
        n \in PhaseNames }

\* exit codes of the signal executions: the key may be missing from the
\* document (signal.exitCode is undefined), hold null, or hold a number
ExitCodes ==
    { [kind |-> "absent", n |-> 0], [kind |-> "null", n |-> 0], ExitOk,
      [kind |-> "number", n |-> 1] }
ExitSignals ==
    { [durationMs |-> 0, durationReported |-> FALSE, exitCode |-> e] :
        e \in ExitCodes }
ExitPhaseShapes ==
    { [PlainPhaseShape EXCEPT !.signals = Some([hasId |-> TRUE, time |-> NoTime,
                                                signals |-> ss]),
                              !.evaluation = ev] :
        ss \in SeqsUpTo(ExitSignals, MaxSignals),
        ev \in {None, Some(PlainEvaluation),
                Some([PlainEvaluation EXCEPT !.finalDecision = Some("Block")])} }
ExitShapes ==
    { [PlainDocShape EXCEPT !.phases = <<p>>] : p \in ExitPhaseShapes }

\* durations of the signal executions: not in the document, reported as 0
\* (an execution shorter than a millisecond), or reported as a positive number
DurationSignals ==
    { [PlainSignal EXCEPT !.durationMs = r.ms, !.durationReported = r.reported] :
        r \in { [ms |-> 0, reported |-> FALSE], [ms |-> 0, reported |-> TRUE],
                [ms |-> 1, reported |-> TRUE] } }
DurationShapes ==
    { [PlainDocShape EXCEPT !.phases =
          <<[PlainPhaseShape EXCEPT !.signals =
                Some([hasId |-> TRUE, time |-> st, signals |-> ss])]>>] :
        st \in SignalsTimes, ss \in SeqsUpTo(DurationSignals, MaxSignals) }

DocShapes ==
    {TimingShapes, EnrichShapes, IdentShapes, StatusShapes, NameShapes,
     ExitShapes, DurationShapes}

(***************************************************************************)
(* Span lists given to processSpans directly: spans with distinct ids, a   *)
(* parentId that is absent, names a span of the list or names no span      *)
(* ("ghost"), and no span that is its own ancestor.                        *)
(***************************************************************************)
NodeId(k) == "n" \o ToString(k)

RECURSIVE ReachesTop(_, _, _)
ReachesTop(list, span, fuel) ==
    IF span.parentId = None THEN TRUE
    ELSE LET parent == SpanMapGet(list, span.parentId[1])
         IN  IF parent = None THEN TRUE
             ELSE fuel > 0 /\ ReachesTop(list, parent[1], fuel - 1)

Acyclic(list) == \A k \in 1..Len(list) : ReachesTop(list, list[k], Len(list))

NodeShapes ==
    [ parentId : {None, Some("ghost")} \cup {Some(NodeId(j)) : j \in 1..MaxSpans},
      startTime : {0, 5} ]

MkList(f) ==
    [k \in 1..Len(f) |->
        [ spanId |-> NodeId(k), parentId |-> f[k].parentId,
          serviceName |-> "Span", startTime |-> f[k].startTime,
          duration |-> 1, status |-> "ok" ]]

LayoutInputs ==
    { list \in { MkList(f) : f \in SeqsUpTo(NodeShapes, MaxSpans) } :
        Acyclic(list) }

(***************************************************************************)
(* The pipeline: PolicyViewer flattens the document on every render and    *)
(* PolicyTraceChart lays the list out (useMemo on spans).                  *)
(***************************************************************************)
\* d3.zoomIdentity; x is the pan in chart widths: translateExtent
\* [[0, 0], [width * 2, totalSVGHeight]] lets the view move one width
Identity == [k |-> 1, x |-> 0]
NoGesture ==
    [type |-> "none", ctrlKey |-> FALSE, metaKey |-> FALSE, transform |-> Identity]
NoSize == [width |-> 0, height |-> 0]

\* no processSpans call is run step by step
WalkIdle ==
    [ pc |-> "idle", i |-> 0, cur |-> None, links |-> 0, depths |-> <<>>,
      sorted |-> <<>>, stack |-> <<>>, steps |-> 0 ]

\* no PolicyTraceChart is mounted
ChartIdle ==
    /\ chartMounted = FALSE
    /\ observing = FALSE
    /\ rafQueue = <<>>
    /\ dimensions = NoSize
    /\ renderPending = FALSE
    /\ drawn = FALSE
    /\ scrollTop = 0
    /\ stickyTop = 0
    /\ zoomTransform = Identity
    /\ barTransform = Identity
    /\ rowTranslate = <<>>
    /\ hoveredRow = 0
    /\ lastGesture = NoGesture

ViewerIdle ==
    /\ evaluations = 0
    /\ selectedEvaluation = None
    /\ cupcakeSpan = None
    /\ spanLoading = FALSE
    /\ selectedSpan = None
    /\ effectPending = FALSE
    /\ inFlight = {}
    /\ fetchCount = 0
    /\ loadSpanResult = "none"

\* const traceSpans = cupcakeSpan ? flattenCupcakeSpan(cupcakeSpan) : []
Flatten ==
    /\ stage = "input"
    /\ spans' = flattenCupcakeSpan(cupcake)
    /\ stage' = "flat"
    /\ UNCHANGED <<cupcake, processed, walk, viewerVars, chartVars>>

\* const processedData = useMemo(() => processSpans(spans), [spans])
Layout ==
    /\ stage = "flat"
    /\ processed' = processSpans(spans)
    /\ stage' = "laid"
    /\ UNCHANGED <<cupcake, spans, walk, viewerVars, chartVars>>

InitFlatten ==
    /\ \E family \in DocShapes : \E sh \in family : cupcake = MkDoc(sh)
    /\ spans = <<>>
    /\ processed = <<>>
    /\ stage = "input"
    /\ walk = WalkIdle
    /\ ViewerIdle
    /\ ChartIdle

NextFlatten == Flatten \/ Layout

SpecFlatten == InitFlatten /\ [][NextFlatten]_vars

InitLayout ==
    /\ cupcake = MkDoc(PlainDocShape)
    /\ spans \in LayoutInputs
    /\ processed = <<>>
    /\ stage = "flat"
    /\ walk = WalkIdle
    /\ ViewerIdle
    /\ ChartIdle

NextLayout == Layout

SpecLayout == InitLayout /\ [][NextLayout]_vars

(***************************************************************************)
(* processSpans run step by step: one step is one invocation of getDepth   *)
(* or one iteration of a `for` loop of the row assignment.  The sort calls *)
(* getDepth on the elements of the list; the run makes one such call per   *)
(* element.  walk.links counts the getDepth invocations that wait for the  *)
(* current one, walk.stack holds the loops of the processSubtree calls     *)
(* that have not returned (the first frame is the loop over rootSpans).    *)
(* A call stack of StackLimit frames is full: the next call throws a       *)
(* RangeError.                                                             *)
(***************************************************************************)
StackLimit == 6

\* lists with distinct ids whose parentId is absent or names a span id (of
\* the list or not), without a span that is its own ancestor; later spans
\* start earlier, so that the sort reorders siblings
WalkParents == {None} \cup {Some(NodeId(j)) : j \in 1..MaxSpans}
WalkInputs ==
    { list \in { MkList([k \in 1..Len(f) |->
                            [parentId |-> f[k], startTime |-> Len(f) - k]]) :
                    f \in SeqsUpTo(WalkParents, MaxSpans) } :
        Acyclic(list) }

InitWalk ==
    /\ cupcake = MkDoc(PlainDocShape)
    /\ spans \in WalkInputs
    /\ processed = <<>>
    /\ stage = "flat"
    /\ walk = [WalkIdle EXCEPT !.pc = "sort", !.i = 1]
    /\ ViewerIdle
    /\ ChartIdle

\* the sort asks for the depth of the next element; with the depths of all
\* elements the list is sorted, rootSpans is filtered and its loop starts
SortNext ==
    /\ walk.pc = "sort"
    /\ IF walk.i <= Len(spans)
       THEN walk' = [walk EXCEPT !.pc = "getDepth",
                                 !.cur = Some(spans[walk.i]),
                                 !.links = 0,
                                 !.steps = @ + 1]
       ELSE LET sorted == SortedByDepth(spans, walk.depths)
            IN  walk' = [walk EXCEPT
                            !.pc = "walk",
                            !.sorted = sorted,
                            !.stack = <<[list |-> RootSpans(sorted),
                                         next |-> 1, depth |-> 0]>>,
                            !.steps = @ + 1]
    /\ UNCHANGED <<cupcake, spans, processed, stage, viewerVars, chartVars>>

\* getDepth called with its own argument as the parent
getDepthParentIsSpan(list, span) == Some(span)

\* const parent = spanMap.get(span.parentId)
getDepthParent(list, span) == SpanMapGet(list, span.parentId[1])

\* one invocation of getDepth(span): it returns 0, and every waiting
\* invocation adds 1, or it calls getDepth(parent)
GetDepthStep ==
    /\ walk.pc = "getDepth"
    /\ LET span == walk.cur[1]
           parent == IF span.parentId = None THEN None
                     ELSE getDepthParent(spans, span)
       IN  IF parent = None
           THEN walk' = [walk EXCEPT !.pc = "sort",
                                     !.depths = Append(@, walk.links),
                                     !.i = @ + 1,
                                     !.cur = None,
                                     !.links = 0,
                                     !.steps = @ + 1]
           ELSE IF walk.links + 1 >= StackLimit
           THEN walk' = [walk EXCEPT !.pc = "threw", !.steps = @ + 1]
           ELSE walk' = [walk EXCEPT !.cur = parent,
                                     !.links = @ + 1,
                                     !.steps = @ + 1]
    /\ UNCHANGED <<cupcake, spans, processed, stage, viewerVars, chartVars>>

\* one iteration of the innermost running loop `for (const child of
\* children)` (or `for (const root of rootSpans)`): processSubtree(child,
\* depth) pushes the span, increments row and starts the loop over its
\* children; a loop that is over returns to its caller
ProcessSubtreeStep ==
    /\ walk.pc = "walk"
    /\ LET frames == Len(walk.stack)
           top == walk.stack[frames]
       IN  IF top.next > Len(top.list)
           THEN /\ walk' = [walk EXCEPT
                               !.stack = SubSeq(@, 1, frames - 1),
                               !.pc = IF frames = 1 THEN "done" ELSE "walk",
                               !.steps = @ + 1]
                /\ stage' = IF frames = 1 THEN "laid" ELSE stage
                /\ UNCHANGED processed
           ELSE IF frames >= StackLimit
           THEN /\ walk' = [walk EXCEPT !.pc = "threw", !.steps = @ + 1]
                /\ UNCHANGED <<processed, stage>>
           ELSE LET span == top.list[top.next]
                IN  /\ processed' =
                          Append(processed,
                                 span @@ [row |-> RowAtPush(Len(processed) + 1),
                                          depth |-> top.depth])
                    /\ walk' = [walk EXCEPT
                                   !.stack =
                                       Append([@ EXCEPT ![frames].next = @ + 1],
                                              [list |-> Children(walk.sorted, span),
                                               next |-> 1,
                                               depth |-> top.depth + 1]),
                                   !.steps = @ + 1]
                    /\ UNCHANGED stage
    /\ UNCHANGED <<cupcake, spans, viewerVars, chartVars>>

NextWalk == SortNext \/ GetDepthStep \/ ProcessSubtreeStep

SpecWalk == InitWalk /\ [][NextWalk]_vars

(***************************************************************************)
(* policy-viewer.tsx : PolicyViewer                                        *)
(*                                                                         *)
(* A PolicyEvaluation object is [filename, gen]: gen tells the objects of  *)
(* one get_policy_evaluations result from those of the next, which React   *)
(* compares by reference.  A fetched document is known by the file it was  *)
(* read from.  React runs the effect of a commit caused by a click before  *)
(* any other event is handled, so nothing else happens while effectPending.*)
(***************************************************************************)
Files == {"a.json", "b.json"}
FetchOutcomes == {"json", "null", "garbage", "throw"}
ChartSpanIds == {"root", "phase"}

InitViewer ==
    /\ cupcake = MkDoc(PlainDocShape)
    /\ spans = <<>>
    /\ processed = <<>>
    /\ stage = "idle"
    /\ walk = WalkIdle
    /\ evaluations = 0
    /\ selectedEvaluation = None
    /\ cupcakeSpan = None
    /\ spanLoading = FALSE
    /\ selectedSpan = None
    /\ effectPending = TRUE         \* the effect of the mount
    /\ inFlight = {}
    /\ fetchCount = 0
    /\ loadSpanResult = "none"
    /\ ChartIdle

\* loadEvaluations: setEvaluations(evals) with freshly deserialized objects
LoadEvaluations ==
    /\ ~effectPending
    /\ evaluations < MaxReloads
    /\ evaluations' = evaluations + 1
    /\ UNCHANGED <<pipelineVars, chartVars, selectedEvaluation, cupcakeSpan,
                   spanLoading,
                   selectedSpan, effectPending, inFlight, fetchCount,
                   loadSpanResult>>

\* onClick={() => setSelectedEvaluation(e)}: React bails out when e is the
\* object already held; otherwise the commit schedules the effect
\* (deps [projectPath, selectedEvaluation])
ClickEvaluation(filename) ==
    LET e == [filename |-> filename, gen |-> evaluations]
    IN  /\ ~effectPending
        /\ fetchCount < MaxFetches
        /\ IF selectedEvaluation = Some(e)
           THEN UNCHANGED <<selectedEvaluation, effectPending>>
           ELSE /\ selectedEvaluation' = Some(e)
                /\ effectPending' = TRUE
        /\ UNCHANGED <<pipelineVars, chartVars, evaluations, cupcakeSpan,
                       spanLoading,
                       selectedSpan, inFlight, fetchCount, loadSpanResult>>

\* the effect body, up to the await inside loadSpan
LoadSpanEffect ==
    /\ effectPending
    /\ effectPending' = FALSE
    /\ IF selectedEvaluation = None
       THEN /\ cupcakeSpan' = None
            /\ selectedSpan' = None
            /\ UNCHANGED <<spanLoading, inFlight, fetchCount, loadSpanResult>>
       ELSE /\ spanLoading' = TRUE
            /\ selectedSpan' = None
            /\ inFlight' = inFlight \cup
                   {[id |-> fetchCount + 1,
                     filename |-> selectedEvaluation[1].filename]}
            /\ fetchCount' = fetchCount + 1
            /\ loadSpanResult' = "pending"
            /\ UNCHANGED cupcakeSpan
    /\ UNCHANGED <<pipelineVars, chartVars, evaluations, selectedEvaluation>>

\* what loadSpan hands to setCupcakeSpan when its invoke settles
LoadedSpan(request, outcome) ==
    IF outcome = "json" THEN Some([filename |-> request.filename]) ELSE None

\* the continuation of loadSpan after `await invoke(...)`: try / catch / finally
FetchSettles(request, outcome) ==
    /\ ~effectPending
    /\ request \in inFlight
    /\ cupcakeSpan' = LoadedSpan(request, outcome)
    /\ spanLoading' = FALSE
    /\ inFlight' = inFlight \ {request}
    /\ loadSpanResult' = IF request.id = fetchCount THEN outcome
                         ELSE loadSpanResult
    /\ UNCHANGED <<pipelineVars, chartVars, evaluations, selectedEvaluation,
                   selectedSpan,
                   effectPending, fetchCount>>

\* the chart is mounted in the last branch of the content area
ChartMounted ==
    selectedEvaluation # None /\ ~spanLoading /\ cupcakeSpan # None

\* "Failed to load trace data" is the third branch of the content area
FailedView == selectedEvaluation # None /\ ~spanLoading /\ cupcakeSpan = None

\* the outcomes after which loadSpan calls setCupcakeSpan(null)
FailedOutcomes == {"null", "garbage", "throw"}

\* .on("click", (_e, d) => onSpanSelect(d)) with onSpanSelect = setSelectedSpan
SelectSpan(spanId) ==
    /\ ~effectPending
    /\ ChartMounted
    /\ selectedSpan' = Some([filename |-> cupcakeSpan[1].filename,
                             spanId |-> spanId])
    /\ UNCHANGED <<pipelineVars, chartVars, evaluations, selectedEvaluation,
                   cupcakeSpan,
                   spanLoading, effectPending, inFlight, fetchCount,
                   loadSpanResult>>

NextViewer ==
    \/ LoadEvaluations
    \/ \E filename \in Files : ClickEvaluation(filename)
    \/ LoadSpanEffect
    \/ \E request \in inFlight : \E outcome \in FetchOutcomes :
           FetchSettles(request, outcome)
    \/ \E spanId \in ChartSpanIds : SelectSpan(spanId)

SpecViewer == InitViewer /\ [][NextViewer]_vars

(***************************************************************************)
(* policy-trace-chart.tsx : PolicyTraceChart                               *)
(*                                                                         *)
(* The chart of one loaded document.  Its parent PolicyViewer stays in the *)
(* state that mounts it (an evaluation selected, its document loaded)      *)
(* until the commit that replaces the chart by "Loading trace...".         *)
(* One rendering opportunity of the browser runs the animation frame       *)
(* callbacks requested so far and then delivers the ResizeObserver         *)
(* notification, if the container's size has changed.                      *)
(***************************************************************************)
ROW_HEIGHT == 28

ChartFile == "a.json"
ChartDocShape == [PlainDocShape EXCEPT !.phases = <<PlainPhaseShape>>]

\* entries[0].contentRect of a notification
Sizes == {[width |-> 400, height |-> 300], [width |-> 800, height |-> 300]}

\* transforms within scaleExtent([1, 100]) and the translate extent
ZoomLevels == {1, 2}
Transforms == [k : ZoomLevels, x : {-1, 0}]

\* events d3-zoom listens to on the svg: wheel, mousedown (drag), touchstart
\* (pinch) and dblclick
GestureTypes == {"wheel", "mousedown", "touchstart", "dblclick"}
Gestures == [type : GestureTypes, ctrlKey : BOOLEAN, metaKey : BOOLEAN]

\* .filter((event) => ...)
zoomFilterAdmitAll(event) == TRUE

zoomFilter(event) ==
    IF event.type = "wheel" THEN event.ctrlKey \/ event.metaKey ELSE TRUE

\* svg.call(zoom).on("dblclick.zoom", null): no listener handles dblclick
ZoomListens(event) == event.type # "dblclick"

\* the transforms a gesture can ask for: a drag pans, a wheel or a pinch
\* zooms too
Requested(event) ==
    IF event.type = "mousedown"
    THEN {t \in Transforms : t.k = zoomTransform.k}
    ELSE Transforms

\* .attr("transform", (d) => `translate(0, ${d.row * rowHeight})`)
RowTranslate(data) == [k \in 1..Len(data) |-> data[k].row * ROW_HEIGHT]

\* what the "zoom" handler does to the bar rows' transform: it sets x and
\* width of the .span-rect elements only
ZoomedRowsScaled(rows, transform) ==
    [k \in 1..Len(rows) |-> rows[k] * (transform.k + 1)]

ZoomedRows(rows, transform) == rows

\* the body of the D3 rendering effect
RenderDraw(data, dims) ==
    IF Len(data) = 0 \/ dims.width = 0
    THEN UNCHANGED <<drawn, stickyTop, barTransform, rowTranslate, hoveredRow>>
    ELSE /\ drawn' = TRUE
         /\ stickyTop' = 0
         /\ barTransform' = Identity
         /\ rowTranslate' = RowTranslate(data)
         /\ hoveredRow' = 0

InitChart ==
    /\ cupcake = MkDoc(ChartDocShape)
    /\ spans = flattenCupcakeSpan(cupcake)
    /\ processed = processSpans(spans)
    /\ stage = "chart"
    /\ walk = WalkIdle
    /\ evaluations = 0
    /\ selectedEvaluation = Some([filename |-> ChartFile, gen |-> 0])
    /\ cupcakeSpan = Some([filename |-> ChartFile])
    /\ spanLoading = FALSE
    /\ selectedSpan = None
    /\ effectPending = FALSE
    /\ inFlight = {}
    /\ fetchCount = 1
    /\ loadSpanResult = "json"
    \* the mount effects have run: the observer is connected, the scroll
    \* listener added, the rendering effect has returned (width is 0)
    /\ chartMounted = TRUE
    /\ observing = TRUE
    /\ rafQueue = <<>>
    /\ dimensions = NoSize
    /\ renderPending = FALSE
    /\ drawn = FALSE
    /\ scrollTop = 0
    /\ stickyTop = 0
    /\ zoomTransform = Identity
    /\ barTransform = Identity
    /\ rowTranslate = <<>>
    /\ hoveredRow = 0
    /\ lastGesture = NoGesture

chartParentVars == <<cupcake, stage, evaluations, selectedEvaluation,
                     cupcakeSpan, effectPending, inFlight, fetchCount,
                     loadSpanResult>>

\* one rendering opportunity: the requested callbacks run (the last
\* setDimensions of the batch is the one rendered; on an unmounted component
\* setDimensions does nothing), then the observer's callback requests a
\* frame for the notification
RenderingUpdate(notify) ==
    /\ rafQueue # <<>> \/ (observing /\ notify # None)
    /\ IF rafQueue # <<>> /\ chartMounted
       THEN /\ dimensions' = rafQueue[Len(rafQueue)]
            /\ renderPending' = TRUE
       ELSE UNCHANGED <<dimensions, renderPending>>
    /\ rafQueue' = IF observing /\ notify # None THEN <<notify[1]>> ELSE <<>>
    /\ UNCHANGED <<chartParentVars, walk, spans, processed, spanLoading, selectedSpan,
                   chartMounted, observing, drawn, scrollTop, stickyTop,
                   zoomTransform, barTransform, rowTranslate, hoveredRow,
                   lastGesture>>

\* the D3 rendering effect of a commit caused by setDimensions
RenderEffect ==
    /\ chartMounted
    /\ renderPending
    /\ renderPending' = FALSE
    /\ RenderDraw(processed, dimensions)
    /\ UNCHANGED <<chartParentVars, walk, spans, processed, spanLoading, selectedSpan,
                   chartMounted, observing, rafQueue, dimensions, scrollTop,
                   zoomTransform, lastGesture>>

\* handleScroll
Scroll(top) ==
    /\ chartMounted
    /\ drawn
    /\ top # scrollTop
    /\ scrollTop' = top
    /\ stickyTop' = top
    /\ UNCHANGED <<chartParentVars, walk, spans, processed, spanLoading, selectedSpan,
                   chartMounted, observing, rafQueue, dimensions, renderPending,
                   drawn, zoomTransform, barTransform, rowTranslate, hoveredRow,
                   lastGesture>>

\* an event on the svg that d3-zoom's filter sees, asking for transform;
\* when admitted the "zoom" handler redraws grid, axis and bars with
\* event.transform.rescaleX(xScale)
ZoomGesture(event, transform) ==
    /\ chartMounted
    /\ drawn
    /\ transform \in Requested(event)
    /\ lastGesture' = [type |-> event.type, ctrlKey |-> event.ctrlKey,
                       metaKey |-> event.metaKey, transform |-> transform]
    /\ IF zoomFilter(event) /\ ZoomListens(event)
       THEN /\ zoomTransform' = transform
            /\ barTransform' = transform
            /\ rowTranslate' = ZoomedRows(rowTranslate, transform)
       ELSE UNCHANGED <<zoomTransform, barTransform, rowTranslate>>
    /\ UNCHANGED <<chartParentVars, walk, spans, processed, spanLoading, selectedSpan,
                   chartMounted, observing, rafQueue, dimensions, renderPending,
                   drawn, scrollTop, stickyTop, hoveredRow>>

\* mouseover (row > 0) and mouseout (row = 0) of a row background
Hover(row) ==
    /\ chartMounted
    /\ drawn
    /\ row # hoveredRow
    /\ hoveredRow' = row
    /\ UNCHANGED <<chartParentVars, walk, spans, processed, spanLoading, selectedSpan,
                   chartMounted, observing, rafQueue, dimensions, renderPending,
                   drawn, scrollTop, stickyTop, zoomTransform, barTransform,
                   rowTranslate, lastGesture>>

\* click on a row background: onSpanSelect(d) is the parent's setSelectedSpan;
\* the parent renders, flattening its document anew, the chart lays the new
\* list out and React runs the rendering effect before the next event
ClickRow(row) ==
    /\ chartMounted
    /\ drawn
    /\ row \in 1..Len(processed)
    /\ selectedSpan' = Some([filename |-> cupcakeSpan[1].filename,
                             spanId |-> processed[row].spanId])
    /\ spans' = flattenCupcakeSpan(cupcake)
    /\ processed' = processSpans(spans')
    /\ renderPending' = FALSE
    /\ RenderDraw(processed', dimensions)
    /\ UNCHANGED <<chartParentVars, walk, spanLoading, chartMounted, observing,
                   rafQueue, dimensions, scrollTop, zoomTransform, lastGesture>>

\* the commit in which PolicyViewer renders "Loading trace..." in place of
\* the chart (loadSpan of another evaluation): the effects' cleanups run and
\* the container and its svg leave the document
ChartUnmount ==
    /\ chartMounted
    /\ spanLoading' = TRUE
    /\ selectedSpan' = None
    /\ chartMounted' = FALSE
    /\ observing' = FALSE
    /\ renderPending' = FALSE
    /\ drawn' = FALSE
    /\ scrollTop' = 0
    /\ stickyTop' = 0
    /\ zoomTransform' = Identity
    /\ barTransform' = Identity
    /\ rowTranslate' = <<>>
    /\ hoveredRow' = 0
    /\ lastGesture' = NoGesture
    /\ UNCHANGED <<chartParentVars, walk, spans, processed, rafQueue, dimensions>>

NextChart ==
    \/ \E notify \in {None} \cup {Some(size) : size \in Sizes} :
           RenderingUpdate(notify)
    \/ RenderEffect
    \/ \E top \in 0..MaxScroll : Scroll(top)
    \/ \E event \in Gestures : \E transform \in Transforms :
           ZoomGesture(event, transform)
    \/ \E row \in 0..Len(processed) : Hover(row)
    \/ \E row \in 1..Len(processed) : ClickRow(row)
    \/ ChartUnmount

SpecChart == InitChart /\ [][NextChart]_vars

(***************************************************************************)
(* PolicyTraceChart as a component of its own: its caller may render it    *)
(* with an empty `spans` list first and hand it the list later.  With an   *)
(* empty list the component returns the "No spans to display" element: no  *)
(* container is rendered, containerRef.current is null, and the resize and *)
(* scroll effects (dependency list []) return before observing or          *)
(* listening.  They do not run again.                                      *)
(***************************************************************************)
InitChartEmpty ==
    /\ cupcake = MkDoc(ChartDocShape)
    /\ spans = <<>>
    /\ processed = processSpans(spans)
    /\ stage = "chart"
    /\ walk = WalkIdle
    /\ evaluations = 0
    /\ selectedEvaluation = Some([filename |-> ChartFile, gen |-> 0])
    /\ cupcakeSpan = Some([filename |-> ChartFile])
    /\ spanLoading = FALSE
    /\ selectedSpan = None
    /\ effectPending = FALSE
    /\ inFlight = {}
    /\ fetchCount = 1
    /\ loadSpanResult = "json"
    /\ chartMounted = TRUE
    /\ observing = FALSE
    /\ rafQueue = <<>>
    /\ dimensions = NoSize
    /\ renderPending = FALSE
    /\ drawn = FALSE
    /\ scrollTop = 0
    /\ stickyTop = 0
    /\ zoomTransform = Identity
    /\ barTransform = Identity
    /\ rowTranslate = <<>>
    /\ hoveredRow = 0
    /\ lastGesture = NoGesture

\* a render with a non-empty `spans` prop after renders with an empty one:
\* the container and the svg are rendered now, the memos are recomputed and
\* the rendering effect runs (processedData changed); the effects with the
\* dependency list [] are not run
ReceiveSpans ==
    /\ chartMounted
    /\ spans = <<>>
    /\ spans' = flattenCupcakeSpan(cupcake)
    /\ processed' = processSpans(spans')
    /\ renderPending' = FALSE
    /\ RenderDraw(processed', dimensions)
    /\ UNCHANGED <<chartParentVars, walk, spanLoading, selectedSpan, chartMounted,
                   observing, rafQueue, dimensions, scrollTop, zoomTransform,
                   lastGesture>>

NextChartProps ==
    \/ NextChart
    \/ ReceiveSpans

\* the browser gives a rendering opportunity while animation frame callbacks
\* are queued or an observed element has a size to report, and React runs
\* the effects of a commit
FairChart ==
    /\ WF_vars(\E notify \in {None} \cup {Some(size) : size \in Sizes} :
                  RenderingUpdate(notify))
    /\ WF_vars(RenderEffect)

SpecChartProps ==
    /\ InitChart \/ InitChartEmpty
    /\ [][NextChartProps]_vars
    /\ FairChart

(***************************************************************************)
(* Properties                                                              *)
(***************************************************************************)
Flattened == stage \in {"flat", "laid"}
SpanFields == {"spanId", "parentId", "serviceName", "startTime", "duration",
               "status"}
PhaseServiceNames == {"Global", "Project", "Catalog", "Phase"}
ErrorDecisions == {Some("Block"), Some("Halt"), Some("Deny")}

\* C1: when a fetch settles and its document becomes cupcakeSpan, the fetch
\* was made for the evaluation that is selected: the response to a fetch for
\* a previously selected evaluation is discarded.
C1_StaleResponseDiscarded ==
    [][\A request \in inFlight :
          (/\ inFlight' = inFlight \ {request}
           /\ cupcakeSpan' = Some([filename |-> request.filename]))
          => (/\ selectedEvaluation' # None
              /\ selectedEvaluation'[1].filename = request.filename)]_vars

\* C2: every span of flattenCupcakeSpan's result has duration >= 1.
C2_DurationFloor ==
    Flattened => \A i \in 1..Len(spans) : spans[i].duration >= 1

\* C3: the Root span starts at 0 and its interval contains the interval of
\* every other span of the list.
C3_RootCoverage ==
    Flattened =>
        /\ spans[1].startTime = 0
        /\ \A i \in 2..Len(spans) :
              /\ spans[i].startTime >= spans[1].startTime
              /\ spans[i].startTime + spans[i].duration
                     <= spans[1].startTime + spans[1].duration

\* the spans of the phases, in the order of the phases
PhaseSpansOf(list) ==
    SelectSeq(list, LAMBDA sp : sp.serviceName \in PhaseServiceNames)

\* C4: a phase whose final decision is Block, Halt or Deny makes the Root
\* span's status and its own span's status error; with no such phase, a phase
\* whose final decision is Ask makes the Root span's status warning.
C4_StatusMonotonicity ==
    Flattened =>
        LET phases == cupcake.phases
            errorPhases == {i \in 1..Len(phases) :
                               EvalDecision(phases[i]) \in ErrorDecisions}
            askPhases == {i \in 1..Len(phases) :
                             EvalDecision(phases[i]) = Some("Ask")}
        IN  /\ \A i \in errorPhases :
                  /\ spans[1].status = "error"
                  /\ PhaseSpansOf(spans)[i].status = "error"
            /\ (errorPhases = {} /\ askPhases # {}) => spans[1].status = "warning"

SameSpan(p, sp) == \A f \in SpanFields : p[f] = sp[f]

\* C5: laying out the N spans flattened from a trace yields N laid-out spans,
\* one per display span, whose rows are exactly 0 .. N-1.
C5_RowContiguity ==
    stage = "laid" =>
        LET N == Len(spans)
        IN  /\ Len(processed) = N
            /\ {processed[k].row : k \in 1..Len(processed)} = 0..(N - 1)
            /\ \A i \in 1..N :
                  Cardinality({k \in 1..Len(processed) :
                                  SameSpan(processed[k], spans[i])})
                  = Cardinality({j \in 1..N : spans[j] = spans[i]})

C5_Witness ==
    /\ stage = "laid"
    /\ Len(spans) >= 6
    /\ \E k \in 1..Len(processed) : processed[k].depth = 3
    /\ \E k \in 2..Len(processed) : processed[k].depth = 0

\* the laid-out spans that name the laid-out span k as their parent
ChildrenIdx(list, k) ==
    {j \in 1..Len(list) : list[j].parentId = Some(list[k].spanId)}

RECURSIVE DescendantsWithin(_, _, _)
DescendantsWithin(list, k, fuel) ==
    IF fuel = 0 THEN {}
    ELSE LET direct == ChildrenIdx(list, k)
         IN  direct \cup UNION {DescendantsWithin(list, j, fuel - 1) : j \in direct}

Descendants(list, k) == DescendantsWithin(list, k, Len(list))

\* C6: every descendant of a laid-out span s has a row greater than s's, and
\* no span outside s's subtree has a row between s's row and the row of s's
\* last descendant.
C6_SubtreeContainment ==
    stage = "laid" =>
        \A k \in 1..Len(processed) :
            LET D == Descendants(processed, k)
                rowK == processed[k].row
            IN  /\ \A j \in D : processed[j].row > rowK
                /\ \A m \in (1..Len(processed)) \ (D \cup {k}) :
                      \A j \in D :
                          ~(rowK < processed[m].row
                            /\ processed[m].row < processed[j].row)

C6_Witness ==
    /\ stage = "laid"
    /\ \E k \in 1..Len(processed) :
          /\ Cardinality(Descendants(processed, k)) >= 2
          /\ \E j \in Descendants(processed, k) : processed[j].depth >= 2
          /\ \E m \in 1..Len(processed) : processed[m].row > processed[k].row
                /\ m \notin Descendants(processed, k)

\* C7: every span but the Root span has a parentId, and it is the spanId of
\* a span of the list.
C7_ParentPresent ==
    Flattened =>
        \A i \in 2..Len(spans) :
            /\ spans[i].parentId # None
            /\ \E j \in 1..Len(spans) : spans[j].spanId = spans[i].parentId[1]

\* C8: the spanIds of the flattened spans are pairwise distinct.
C8_SpanIdsDistinct ==
    Flattened =>
        \A i, j \in 1..Len(spans) : i # j => spans[i].spanId # spans[j].spanId

\* C9: a span whose parentId names no span of the list is laid out, at
\* depth 0.
C9_OrphanPromoted ==
    stage = "laid" =>
        \A i \in 1..Len(spans) :
            (spans[i].parentId # None
             /\ SpanMapGet(spans, spans[i].parentId[1]) = None)
            => \E k \in 1..Len(processed) :
                  /\ processed[k].spanId = spans[i].spanId
                  /\ processed[k].depth = 0

\* C10: the first Signal span of a signals block starts at the Signals span's
\* startTime, and every later one where the Signal span before it ends.
C10_SignalsSequential ==
    Flattened =>
        \A i \in 1..Len(spans) :
            spans[i].serviceName = "Signal" =>
                /\ i > 1
                /\ spans[i - 1].serviceName \in {"Signals", "Signal"}
                /\ spans[i - 1].serviceName = "Signals"
                       => spans[i].startTime = spans[i - 1].startTime
                /\ spans[i - 1].serviceName = "Signal"
                       => spans[i].startTime
                              = spans[i - 1].startTime + spans[i - 1].duration

C10_Witness ==
    /\ Flattened
    /\ \E i \in 3..Len(spans) :
          /\ spans[i].serviceName = "Signal"
          /\ spans[i - 1].serviceName = "Signal"
          /\ spans[i - 2].serviceName = "Signals"
          /\ spans[i - 1].duration = 1000
          /\ spans[i].duration # 1000
          /\ spans[i - 2].startTime > 0

\* the number of spans a phase contributes according to its shape
PhaseSize(phase) ==
    1 + (IF phase.signals = None THEN 0
         ELSE 1 + Len(phase.signals[1].signals))
      + (IF phase.evaluation = None THEN 0 ELSE 1)

\* the number of spans that precede the span of phase i
RECURSIVE PhaseOffset(_, _)
PhaseOffset(c, i) ==
    IF i = 1 THEN 1 + (IF c.enrich = None THEN 0 ELSE 1)
    ELSE PhaseOffset(c, i - 1) + PhaseSize(c.phases[i - 1])

\* C11: the list is the Root span, then an Enrich span iff the document has
\* an enrich phase, then per phase in input order: the phase span, iff it has
\* a signals block a Signals span and one Signal span per signal execution in
\* input order, iff it has an evaluation an Evaluation span; so its length is
\* 1 + [enrich] + the sum over the phases of
\* 1 + [signals](1 + number of signals) + [evaluation].
C11_SpanOrderAndNumber ==
    Flattened =>
        /\ Len(spans) = PhaseOffset(cupcake, Len(cupcake.phases) + 1)
        /\ spans[1].serviceName = "Root"
        /\ cupcake.enrich # None => spans[2].serviceName = "Enrich"
        /\ \A i \in 1..Len(cupcake.phases) :
              LET phase == cupcake.phases[i]
                  o == PhaseOffset(cupcake, i)
                  n == IF phase.signals = None THEN 0
                       ELSE Len(phase.signals[1].signals)
              IN  /\ spans[o + 1].serviceName \in PhaseServiceNames
                  /\ phase.spanId # None => spans[o + 1].spanId = phase.spanId[1]
                  /\ phase.signals # None =>
                        /\ spans[o + 2].serviceName = "Signals"
                        /\ \A k \in 1..n :
                              /\ spans[o + 2 + k].serviceName = "Signal"
                              /\ phase.signals[1].signals[k].durationMs # 0 =>
                                    spans[o + 2 + k].duration
                                      = 1000 * phase.signals[1].signals[k].durationMs
                  /\ phase.evaluation # None =>
                        spans[o + PhaseSize(phase)].serviceName = "Evaluation"
        /\ (cupcake.enrich = None /\ cupcake.phases = <<>>) => Len(spans) = 1
        /\ \A i \in 1..Len(cupcake.phases) :
              (cupcake.phases[i].signals = None
                  /\ cupcake.phases[i].evaluation = None)
              => PhaseOffset(cupcake, i + 1) = PhaseOffset(cupcake, i) + 1

\* two phases: the first with a signals block of one signal and an
\* evaluation, the second with neither
C11_Witness ==
    /\ Flattened
    /\ Len(cupcake.phases) = 2
    /\ cupcake.phases[1].signals # None
    /\ Len(cupcake.phases[1].signals[1].signals) = 1
    /\ cupcake.phases[1].evaluation # None
    /\ cupcake.phases[2].signals = None
    /\ cupcake.phases[2].evaluation = None
    /\ Len(spans) = 6

\* C12: a Signal span has status error exactly when the exit code of its
\* signal execution is present and non-zero; an exit code 0, null or absent
\* from the document gives status ok.
C12_SignalStatus ==
    Flattened =>
        \A i \in 1..Len(cupcake.phases) :
            cupcake.phases[i].signals # None =>
                \A k \in 1..Len(cupcake.phases[i].signals[1].signals) :
                    LET exitCode == cupcake.phases[i].signals[1].signals[k].exitCode
                        signalSpan == spans[PhaseOffset(cupcake, i) + 2 + k]
                    IN  /\ signalSpan.serviceName = "Signal"
                        /\ signalSpan.status
                              = IF exitCode.kind = "number" /\ exitCode.n # 0
                                THEN "error" ELSE "ok"

\* the signal executions of a document: <<phase index, signal index>>
SignalPositions(c) ==
    UNION { IF c.phases[i].signals = None THEN {}
            ELSE { <<i, k>> : k \in 1..Len(c.phases[i].signals[1].signals) } :
            i \in 1..Len(c.phases) }

\* the document c with the exit code of every signal execution replaced
WithExitCodes(c, f) ==
    [c EXCEPT !.phases =
        [i \in 1..Len(c.phases) |->
            IF c.phases[i].signals = None THEN c.phases[i]
            ELSE [c.phases[i] EXCEPT !.signals =
                    Some([c.phases[i].signals[1] EXCEPT !.signals =
                        [k \in 1..Len(c.phases[i].signals[1].signals) |->
                            [c.phases[i].signals[1].signals[k]
                                EXCEPT !.exitCode = f[<<i, k>>]]]])]]]

\* C13: a document that differs from the flattened one only in the exit codes
\* of its signal executions flattens to a list of the same spans in which
\* every span other than a Signal span has the same status.
C13_ExitCodeNonInterference ==
    stage = "flat" =>
        \A f \in [SignalPositions(cupcake) -> ExitCodes] :
            LET other == flattenCupcakeSpan(WithExitCodes(cupcake, f))
            IN  /\ Len(other) = Len(spans)
                /\ \A j \in 1..Len(spans) :
                      /\ other[j].serviceName = spans[j].serviceName
                      /\ spans[j].serviceName # "Signal"
                            => other[j].status = spans[j].status

\* a flattened document with two signal executions, one of which failed,
\* under a phase whose final decision is Block
C13_Witness ==
    /\ stage = "flat"
    /\ Len(cupcake.phases) = 1
    /\ cupcake.phases[1].signals # None
    /\ Len(cupcake.phases[1].signals[1].signals) = 2
    /\ cupcake.phases[1].signals[1].signals[1].exitCode.n = 1
    /\ cupcake.phases[1].signals[1].signals[2].exitCode.kind = "null"
    /\ spans[4].status = "error"
    /\ spans[5].status = "ok"
    /\ spans[1].status = "error"
    /\ spans[6].serviceName = "Evaluation"

\* C14: when the fetch made for the selected evaluation has returned null,
\* thrown or returned unparsable text and no load is in progress, the view
\* shows "Failed to load trace data" and the timeline chart is not mounted.
C14_FailedFetchShowsPlaceholder ==
    (/\ selectedEvaluation # None
     /\ ~effectPending
     /\ loadSpanResult \in FailedOutcomes
     /\ ~spanLoading
     /\ inFlight = {})
    => (FailedView /\ ~ChartMounted)

\* C15: in the failed-to-load state of the selected evaluation E, a click on
\* E in the evaluation list starts a new fetch for E (the click schedules the
\* load-span effect); and a fetch is started only by the effect that a click
\* on an evaluation has scheduled.
C15_ReclickRefetches ==
    [][/\ (/\ selectedEvaluation # None
           /\ ~effectPending
           /\ loadSpanResult \in FailedOutcomes
           /\ FailedView
           /\ inFlight = {}
           /\ fetchCount < MaxFetches)
          => ENABLED (/\ ClickEvaluation(selectedEvaluation[1].filename)
                      /\ effectPending')
       /\ fetchCount' # fetchCount
          => (/\ effectPending
              /\ selectedEvaluation # None
              /\ \E request \in inFlight' \ inFlight :
                    request.filename = selectedEvaluation[1].filename)]_vars

\* C16: at most one resize-triggered update is scheduled on the animation
\* frame at any time, and a scheduled update runs only while the chart is
\* mounted (none runs after the chart has been torn down).
C16_ResizeSuperseded ==
    [][/\ Len(rafQueue') <= 1
       /\ (rafQueue # <<>> /\ rafQueue' # rafQueue) => chartMounted]_vars

\* C17: whenever the chart is drawn, the sticky header and sticky grid groups
\* are translated by exactly the container's scroll offset, also right after
\* a redraw made while the container is scrolled.
C17_StickyAtViewportTop == drawn => stickyTop = scrollTop

\* C18: a step made by a zoom or pan gesture, a vertical scroll, a hover or a
\* click on a row leaves the span list, every span's row and depth and every
\* bar row's translation as they were.
C18_EventsKeepRows ==
    [][(/\ chartMounted'
        /\ \/ zoomTransform' # zoomTransform
           \/ lastGesture' # lastGesture
           \/ scrollTop' # scrollTop
           \/ hoveredRow' # hoveredRow
           \/ selectedSpan' # selectedSpan)
       => (/\ spans' = spans
           /\ Len(processed') = Len(processed)
           /\ \A k \in 1..Len(processed) :
                 /\ processed'[k].spanId = processed[k].spanId
                 /\ processed'[k].row = processed[k].row
                 /\ processed'[k].depth = processed[k].depth
           /\ drawn => rowTranslate' = rowTranslate)]_vars

\* a drawn, scrolled chart with a selected span and a hovered row, zoomed by
\* a Ctrl+wheel
C18_Witness ==
    /\ drawn
    /\ lastGesture.type = "wheel"
    /\ lastGesture.ctrlKey
    /\ zoomTransform.k = 2
    /\ barTransform = zoomTransform
    /\ scrollTop > 0
    /\ selectedSpan # None
    /\ hoveredRow > 0
    /\ rowTranslate = <<0, ROW_HEIGHT>>

\* C19: a wheel event with neither Ctrl nor Meta held leaves the zoom
\* transform as it was; a wheel event with Ctrl or Meta held, a drag and a
\* pinch are admitted: the transform is the one the gesture asked for.
C19_WheelNeedsModifier ==
    [][/\ (/\ lastGesture'.type = "wheel"
           /\ ~lastGesture'.ctrlKey
           /\ ~lastGesture'.metaKey)
          => zoomTransform' = zoomTransform
       /\ (\/ lastGesture'.type \in {"mousedown", "touchstart"}
           \/ /\ lastGesture'.type = "wheel"
              /\ lastGesture'.ctrlKey \/ lastGesture'.metaKey)
          => zoomTransform' = lastGesture'.transform]_vars

\* a wheel event without modifier that asked for another transform has just
\* been handled on a zoomed chart, after a Meta+wheel had zoomed it
C19_Witness ==
    /\ drawn
    /\ lastGesture.type = "wheel"
    /\ ~lastGesture.ctrlKey
    /\ ~lastGesture.metaKey
    /\ lastGesture.transform = Identity
    /\ zoomTransform = [k |-> 2, x |-> -1]

\* C21: the selected span is null or a span of the trace document that is
\* displayed; no span of one evaluation's trace stays selected while another
\* trace document is displayed.
C21_SelectionOfDisplayedTrace ==
    selectedSpan # None =>
        /\ cupcakeSpan # None
        /\ selectedSpan[1].filename = cupcakeSpan[1].filename

\* "Loading trace..." is the second branch of the content area
LoadingView == selectedEvaluation # None /\ spanLoading

\* C22: while the fetch started for the selected evaluation has not settled,
\* the view is in the Loading state (spanLoading is true, no chart), also
\* after an earlier fetch for a previously selected evaluation has settled.
C22_LoadingWhilePending ==
    (/\ ~effectPending
     /\ selectedEvaluation # None
     /\ \E request \in inFlight :
           /\ request.id = fetchCount
           /\ request.filename = selectedEvaluation[1].filename)
    => (LoadingView /\ ~ChartMounted)

\* the index in the input list of the span that a processed span is
InputIndex(p) == CHOOSE i \in 1..Len(spans) : spans[i].spanId = p.spanId

\* C23: root-level spans receive rows in ascending startTime order, and the
\* direct children of a span receive rows in their relative order in the
\* input list, whatever their start times.
C23_SiblingRowOrder ==
    stage = "laid" =>
        \A a, b \in 1..Len(processed) :
            LET p == processed[a]
                q == processed[b]
            IN  /\ (p.parentId = None /\ q.parentId = None /\ p.row < q.row)
                      => p.startTime <= q.startTime
                /\ (/\ p.parentId # None
                    /\ p.parentId = q.parentId
                    /\ InputIndex(p) < InputIndex(q))
                      => p.row < q.row

\* C24: the Evaluation span of a phase lasts max(1, floor(0.2 * phaseDuration))
\* and starts at phaseStart + phaseDuration - evalDuration, so it ends where
\* its phase span ends; its status is the phase span's status.
C24_EvaluationAtPhaseTail ==
    Flattened =>
        \A i \in 1..Len(cupcake.phases) :
            cupcake.phases[i].evaluation # None =>
                LET o == PhaseOffset(cupcake, i)
                    phaseSpan == spans[o + 1]
                    evalSpan == spans[o + PhaseSize(cupcake.phases[i])]
                IN  /\ evalSpan.serviceName = "Evaluation"
                    /\ evalSpan.duration
                          = Max(1, (2 * phaseSpan.duration) \div 10)
                    /\ evalSpan.startTime
                          = phaseSpan.startTime + phaseSpan.duration
                            - evalSpan.duration
                    /\ evalSpan.startTime + evalSpan.duration
                          = phaseSpan.startTime + phaseSpan.duration
                    /\ evalSpan.status = phaseSpan.status

\* a phase of 10 microseconds with a signals block, whose evaluation takes
\* the last 2 microseconds
C24_Witness ==
    /\ Flattened
    /\ Len(cupcake.phases) >= 1
    /\ cupcake.phases[1].evaluation # None
    /\ cupcake.phases[1].signals # None
    /\ LET phaseSpan == spans[PhaseOffset(cupcake, 1) + 1]
           evalSpan == spans[PhaseOffset(cupcake, 1)
                             + PhaseSize(cupcake.phases[1])]
       IN  /\ phaseSpan.duration = 10
           /\ evalSpan.duration = 2
           /\ evalSpan.startTime = phaseSpan.startTime + 8


\* the Signal spans of a phase with a signals block satisfy P(signal, span,
\* signalsSpan, n, k), n being the number of signals of the block
SignalSpansSatisfy(P(_, _, _, _, _)) ==
    \A i \in 1..Len(cupcake.phases) :
        LET phase == cupcake.phases[i]
            o == PhaseOffset(cupcake, i)
        IN  phase.signals # None =>
                LET n == Len(phase.signals[1].signals)
                IN  \A k \in 1..n :
                        P(phase.signals[1].signals[k], spans[o + 2 + k],
                          spans[o + 2], n, k)

\* the block's signals report no duration and its Signals span lasts n*k
\* microseconds: signal i occupies [i*k, (i+1)*k] from the Signals span's start
EqualShares(i) ==
    LET phase == cupcake.phases[i]
        o == PhaseOffset(cupcake, i)
        n == Len(phase.signals[1].signals)
        share == IF n = 0 THEN 0 ELSE spans[o + 2].duration \div n
    IN  (/\ \A k \in 1..n : ~phase.signals[1].signals[k].durationReported
         /\ share >= 1
         /\ spans[o + 2].duration = n * share)
        => \A k \in 1..n :
              /\ spans[o + 2 + k].startTime
                    = spans[o + 2].startTime + (k - 1) * share
              /\ spans[o + 2 + k].duration = share

ReportedTimesThousand(signal, span, signalsSpan, n, k) ==
    IF signal.durationReported THEN span.duration = 1000 * signal.durationMs
    ELSE span.duration = Max(1, signalsSpan.duration \div n)

PositiveTimesThousand(signal, span, signalsSpan, n, k) ==
    IF signal.durationReported /\ signal.durationMs # 0
    THEN span.duration = 1000 * signal.durationMs
    ELSE span.duration = Max(1, signalsSpan.duration \div n)

\* C25 as stated: a Signal span lasts its signal's reported durationMs times
\* 1000 when a duration is reported, and otherwise the share
\* max(1, floor(SignalsDuration / n)); n signals without durations in a
\* Signals span of n*k microseconds occupy [i*k, (i+1)*k].
C25_ReportedDurationTimesThousand ==
    Flattened =>
        /\ SignalSpansSatisfy(ReportedTimesThousand)
        /\ \A i \in 1..Len(cupcake.phases) :
              cupcake.phases[i].signals # None => EqualShares(i)

\* what flattenCupcakeSpan does: durationMs times 1000 when a duration other
\* than 0 is reported; a signal whose duration is missing or reported as 0
\* gets the share
SignalDurationOrShare ==
    Flattened =>
        /\ SignalSpansSatisfy(PositiveTimesThousand)
        /\ \A i \in 1..Len(cupcake.phases) :
              cupcake.phases[i].signals # None => EqualShares(i)

\* C26: when the trace's startTimeUnixNano or endTimeUnixNano is missing or
\* zero, or the end is not greater than the start, the Root span has startTime
\* 0 and duration exactly 1, and it is the first element of the list.
C26_RootDurationFallback ==
    Flattened =>
        ((\/ cupcake.startTimeUnixNano = 0
          \/ cupcake.endTimeUnixNano = 0
          \/ cupcake.endTimeUnixNano <= cupcake.startTimeUnixNano)
         => /\ spans[1].serviceName = "Root"
            /\ spans[1].startTime = 0
            /\ spans[1].duration = 1
            /\ \A k \in 2..Len(spans) : spans[k].serviceName # "Root")

\* a trace that ends before it starts, with a phase, has been flattened
C26_Witness ==
    /\ Flattened
    /\ cupcake.startTimeUnixNano = 11000
    /\ cupcake.endTimeUnixNano = 1000
    /\ Len(spans) > 1
    /\ spans[1].serviceName = "Root"
    /\ spans[1].duration = 1

\* C27: selecting a span leaves the horizontal zoom/pan unchanged: the redraw
\* that follows a click on a row draws bars, axis ticks and grid with the
\* time-scale transform they had before the click.
C27_SelectionKeepsZoom ==
    [][(selectedSpan' # None /\ selectedSpan' # selectedSpan)
       => barTransform' = barTransform]_vars

\* C28: "Failed to load trace data" is displayed only when the fetch for the
\* selected evaluation has completed with null or with an error: not between
\* the selection of an evaluation and the start of its load, and not while the
\* fetch for the selection is pending.
C28_FailedOnlyAfterFailure ==
    FailedView =>
        /\ ~effectPending
        /\ loadSpanResult \in FailedOutcomes

\* C29: a chart that holds a non-empty span list, also one first rendered
\* with an empty list, is eventually drawn (unless it is unmounted before):
\* its container's size is observed, the dimensions become non-zero and the
\* rendering effect draws the rows.
C29_EventuallyDrawn ==
    (chartMounted /\ spans # <<>>) ~> (drawn \/ ~chartMounted)

\* the longest chain of parent links in the list
TreeHeight(list) ==
    LET depths == {getDepth(list, list[k]) : k \in 1..Len(list)} \cup {0}
    IN  CHOOSE d \in depths : \A e \in depths : e <= d

\* steps of a run on n spans: n + 1 of the sort, at most n invocations of
\* getDepth for each span, one per push and one per loop that ends
WalkBudget(n) == (n + 1) + n * n + n + (n + 1)

\* C30: processSpans terminates on every finite list in which no span is its
\* own ancestor: no call overflows the stack, a getDepth call follows at most
\* tree-height parent links, the row assignment visits each span once, every
\* state before the return has a next step, the steps are bounded by the
\* list's length alone, and the run returns what processSpans returns.
C30_ProcessSpansTerminates ==
    walk.pc # "idle" =>
        /\ walk.pc # "threw"
        /\ walk.links <= TreeHeight(spans)
        /\ Len(walk.stack) <= TreeHeight(spans) + 2
        /\ \A a, b \in 1..Len(processed) :
              a # b => processed[a].spanId # processed[b].spanId
        /\ walk.steps <= WalkBudget(Len(spans))
        /\ walk.pc = "done" \/ ENABLED NextWalk
        /\ walk.pc = "done" => processed = processSpans(spans)

\* the run on a chain of three spans given child first has returned
C30_Witness ==
    /\ walk.pc = "done"
    /\ stage = "laid"
    /\ Len(spans) = 3
    /\ spans[1].parentId = Some(spans[2].spanId)
    /\ spans[2].parentId = Some(spans[3].spanId)
    /\ spans[3].parentId = None
    /\ processed[3].spanId = spans[1].spanId
    /\ processed[3].depth = 2
    /\ walk.stack = <<>>

=============================================================================
